---- MODULE Spec2Model ----
(***************************************************************************)
(* Model of the Monkey lexer in src/main.rs: the token constants and the   *)
(* keyword table (mod token), and the scanner Lexer with its cursor        *)
(* operations and next_token (mod lexer).                                  *)
(*                                                                         *)
(* A character is a one-element name (a string) with a Unicode scalar      *)
(* value given by CodePoint; a Rust String is a sequence of characters.    *)
(* String::len() counts UTF-8 bytes, chars().nth(i) counts characters and  *)
(* input[a..b] slices by byte offsets, as in Rust.  A Rust panic is kept   *)
(* in the variable panic: the program has aborted and takes no more steps. *)
(***************************************************************************)
EXTENDS Integers, Sequences, FiniteSets, TLC

VARIABLES input, position, read_position, ch, panic, tokens

vars == <<input, position, read_position, ch, panic, tokens>>

-----------------------------------------------------------------------------
(* Bounds *)

\* longest generated input string (in characters)
MaxLen == 3
\* most calls of next_token on one scanner
MaxCalls == 6

-----------------------------------------------------------------------------
(* Characters *)

\* '\0', the sentinel character
NUL == "NUL"
\* a character outside ASCII: U+00E9, two bytes in UTF-8
EACUTE == "U+00E9"

CodePoint(c) ==
    CASE c = NUL -> 0
      [] c = "\t" -> 9
      [] c = "\n" -> 10
      [] c = "\r" -> 13
      [] c = " " -> 32
      [] c = "!" -> 33
      [] c = "(" -> 40
      [] c = ")" -> 41
      [] c = "*" -> 42
      [] c = "+" -> 43
      [] c = "," -> 44
      [] c = "-" -> 45
      [] c = "/" -> 47
      [] c = "0" -> 48
      [] c = "5" -> 53
      [] c = "9" -> 57
      [] c = ";" -> 59
      [] c = "<" -> 60
      [] c = "=" -> 61
      [] c = ">" -> 62
      [] c = "@" -> 64
      [] c = "A" -> 65
      [] c = "Z" -> 90
      [] c = "_" -> 95
      [] c = "a" -> 97
      [] c = "e" -> 101
      [] c = "f" -> 102
      [] c = "i" -> 105
      [] c = "l" -> 108
      [] c = "n" -> 110
      [] c = "r" -> 114
      [] c = "s" -> 115
      [] c = "t" -> 116
      [] c = "u" -> 117
      [] c = "v" -> 118
      [] c = "x" -> 120
      [] c = "y" -> 121
      [] c = "z" -> 122
      [] c = "{" -> 123
      [] c = "}" -> 125
      [] c = EACUTE -> 233

\* char::len_utf8: the number of bytes of a character in a String
Utf8Len(c) ==
    IF CodePoint(c) < 128 THEN 1
    ELSE IF CodePoint(c) < 2048 THEN 2
    ELSE IF CodePoint(c) < 65536 THEN 3
    ELSE 4

RECURSIVE ByteOffset(_, _)
\* the byte offset at which the character of index i (from 0) starts
ByteOffset(s, i) ==
    IF i = 0 THEN 0 ELSE ByteOffset(s, i - 1) + Utf8Len(s[i])

\* String::len(): the length in bytes
ByteLen(s) == ByteOffset(s, Len(s))

\* s.chars().nth(n): the n-th character (from 0), or None
CharsNth(s, n) ==
    IF n < Len(s) THEN [some |-> TRUE, val |-> s[n + 1]]
    ELSE [some |-> FALSE, val |-> NUL]

\* str::is_char_boundary
IsCharBoundary(s, b) == \E i \in 0..Len(s) : ByteOffset(s, i) = b

\* s[a..b]: the characters of the byte range, or a panic when the range is
\* out of bounds or cuts a character
Slice(s, a, b) ==
    IF a <= b /\ b <= ByteLen(s) /\ IsCharBoundary(s, a) /\ IsCharBoundary(s, b)
    THEN [ok |-> TRUE,
          val |-> LET idx == {i \in 1..Len(s) :
                                 ByteOffset(s, i - 1) >= a /\ ByteOffset(s, i - 1) < b}
                      lo == IF idx = {} THEN 1
                            ELSE CHOOSE i \in idx : \A j \in idx : i <= j
                  IN  [k \in 1..Cardinality(idx) |-> s[lo + k - 1]]]
    ELSE [ok |-> FALSE, val |-> <<>>]

-----------------------------------------------------------------------------
(* mod token *)

ILLEGAL == "ILLEGAL"
EOF == "EOF"
IDENT == "IDENT"
INT == "INT"
ASSIGN == "="
PLUS == "+"
MINUS == "-"
BANG == "!"
ASTERISK == "*"
SLASH == "/"
\* a kind of its own for the comma
COMMA_OwnKind == ","
COMMA == ";"
SEMICOLON == ";"
LT == "<"
GT == ">"
LPAREN == "("
RPAREN == ")"
LBRACE == "{"
RBRACE == "}"
FUNCTION == "FUNCTION"
LET_ == "LET"
TRUE_ == "TRUE"
FALSE_ == "FALSE"
IF_ == "IF"
ELSE_ == "ELSE"
RETURN == "RETURN"
EQ == "=="
NOT_EQ == "!="

\* Token::new
Token(token_type, literal) == [token_type |-> token_type, literal |-> literal]

\* the keyword table, as the set of its (key, value) entries
KEYWORDS ==
    { <<(<<"f", "n">>), FUNCTION>>,
      <<(<<"l", "e", "t">>), LET_>>,
      <<(<<"t", "r", "u", "e">>), TRUE_>>,
      <<(<<"f", "a", "l", "s", "e">>), FALSE_>>,
      <<(<<"i", "f">>), IF_>>,
      <<(<<"e", "l", "s", "e">>), ELSE_>>,
      <<(<<"r", "e", "t", "u", "r", "n">>), RETURN>> }

\* HashMap::get on the keyword table
KeywordsGet(ident) ==
    IF \E e \in KEYWORDS : e[1] = ident
    THEN [some |-> TRUE, val |-> (CHOOSE e \in KEYWORDS : e[1] = ident)[2]]
    ELSE [some |-> FALSE, val |-> ""]

\* Token::lookup_ident: unwraps the table's answer, so ok is FALSE (a panic)
\* when ident is not a key
lookup_ident(ident) ==
    LET r == KeywordsGet(ident)
    IN  [ok |-> r.some, val |-> r.val]

-----------------------------------------------------------------------------
(* mod lexer *)

\* the ways the program can panic
PanicNone == "none"
PanicNth == "chars().nth(read_position) is None"
PanicSlice == "input[position..self.position] out of range"
PanicLookup == "KEYWORDS.get(ident) is None"

is_digit(c) == CodePoint("0") <= CodePoint(c) /\ CodePoint(c) <= CodePoint("9")

is_letter(c) ==
    \/ CodePoint("a") <= CodePoint(c) /\ CodePoint(c) <= CodePoint("z")
    \/ CodePoint("A") <= CodePoint(c) /\ CodePoint(c) <= CodePoint("Z")
    \/ c = "_"

\* the struct Lexer, with the panic flag
Lexer(i, p, rp, c, pn) ==
    [input |-> i, position |-> p, read_position |-> rp, ch |-> c, panic |-> pn]

\* read_char that does not move position
read_char_KeepsPosition(l) ==
    IF l.panic # PanicNone THEN l
    ELSE IF l.read_position >= ByteLen(l.input)
    THEN [l EXCEPT !.ch = NUL,
                   !.read_position = l.read_position + 1]
    ELSE LET c == CharsNth(l.input, l.read_position)
         IN  IF c.some
             THEN [l EXCEPT !.ch = c.val,
                            !.read_position = l.read_position + 1]
             ELSE [l EXCEPT !.panic = PanicNth]

\* read_position += 1 cannot overflow usize within MaxCalls calls
read_char(l) ==
    IF l.panic # PanicNone THEN l
    ELSE IF l.read_position >= ByteLen(l.input)
    THEN [l EXCEPT !.ch = NUL,
                   !.position = l.read_position,
                   !.read_position = l.read_position + 1]
    ELSE LET c == CharsNth(l.input, l.read_position)
         IN  IF c.some
             THEN [l EXCEPT !.ch = c.val,
                            !.position = l.read_position,
                            !.read_position = l.read_position + 1]
             ELSE [l EXCEPT !.panic = PanicNth]

\* Lexer::new
New(i) == read_char(Lexer(i, 0, 0, NUL, PanicNone))

\* peekChar looking one character too far
peekChar_OneTooFar(l) ==
    IF l.read_position + 1 >= ByteLen(l.input)
    THEN [ok |-> TRUE, val |-> NUL]
    ELSE LET c == CharsNth(l.input, l.read_position + 1)
         IN  [ok |-> c.some, val |-> c.val]

\* peekChar: the next character, or a panic; the scanner is not changed
peekChar(l) ==
    IF l.read_position >= ByteLen(l.input)
    THEN [ok |-> TRUE, val |-> NUL]
    ELSE LET c == CharsNth(l.input, l.read_position)
         IN  [ok |-> c.some, val |-> c.val]

RECURSIVE read_identifier_loop(_)
read_identifier_loop(l) ==
    IF l.panic = PanicNone /\ is_letter(l.ch)
    THEN read_identifier_loop(read_char(l))
    ELSE l

RECURSIVE read_number_loop(_)
read_number_loop(l) ==
    IF l.panic = PanicNone /\ is_digit(l.ch)
    THEN read_number_loop(read_char(l))
    ELSE l

\* the slice that ends read_identifier and read_number
read_slice(l, start) ==
    IF l.panic # PanicNone THEN [l |-> l, literal |-> <<>>]
    ELSE LET r == Slice(l.input, start, l.position)
         IN  IF r.ok THEN [l |-> l, literal |-> r.val]
             ELSE [l |-> [l EXCEPT !.panic = PanicSlice], literal |-> <<>>]

read_identifier(l) == read_slice(read_identifier_loop(l), l.position)

read_number(l) == read_slice(read_number_loop(l), l.position)

is_whitespace(c) == c = " " \/ c = "\t" \/ c = "\n" \/ c = "\r"

RECURSIVE skip_whitespace(_)
\* defined by the source and called from nowhere
skip_whitespace(l) ==
    IF l.panic = PanicNone /\ is_whitespace(l.ch)
    THEN skip_whitespace(read_char(l))
    ELSE l

\* the value of a call that panicked before it made its token
NoToken == Token("", <<>>)

\* the arms '=' and '!' of the match: the two-character operator when the
\* next character is '=', else the one-character operator
two_char_arm(l, two, one) ==
    LET p == peekChar(l)
    IN  IF ~p.ok THEN [l |-> [l EXCEPT !.panic = PanicNth], tok |-> NoToken]
        ELSE IF p.val = "="
        THEN LET c == l.ch
                 l2 == read_char(l)
             IN  [l |-> l2, tok |-> Token(two, <<c, l2.ch>>)]
        ELSE [l |-> l, tok |-> Token(one, <<l.ch>>)]

\* the arm '_' of the match
default_arm(l) ==
    IF is_letter(l.ch)
    THEN LET r == read_identifier(l)
             t == lookup_ident(r.literal)
         IN  IF r.l.panic # PanicNone THEN [l |-> r.l, tok |-> NoToken]
             ELSE IF ~t.ok THEN [l |-> [r.l EXCEPT !.panic = PanicLookup], tok |-> NoToken]
             ELSE [l |-> r.l, tok |-> Token(t.val, r.literal)]
    ELSE IF is_digit(l.ch)
    THEN LET r == read_number(l)
         IN  IF r.l.panic # PanicNone THEN [l |-> r.l, tok |-> NoToken]
             ELSE [l |-> r.l, tok |-> Token(INT, r.literal)]
    ELSE [l |-> l, tok |-> Token(ILLEGAL, <<l.ch>>)]

\* the match of next_token on the current character
match_ch(l) ==
    LET one(t) == [l |-> l, tok |-> Token(t, <<l.ch>>)]
    IN  CASE l.ch = "=" -> two_char_arm(l, EQ, ASSIGN)
          [] l.ch = "!" -> two_char_arm(l, NOT_EQ, BANG)
          [] l.ch = "+" -> one(PLUS)
          [] l.ch = "-" -> one(MINUS)
          [] l.ch = "/" -> one(SLASH)
          [] l.ch = "*" -> one(ASTERISK)
          [] l.ch = "<" -> one(LT)
          [] l.ch = ">" -> one(GT)
          [] l.ch = "(" -> one(LPAREN)
          [] l.ch = ")" -> one(RPAREN)
          [] l.ch = ";" -> one(SEMICOLON)
          [] l.ch = "," -> one(COMMA)
          [] l.ch = "{" -> one(LBRACE)
          [] l.ch = "}" -> one(RBRACE)
          [] l.ch = NUL -> [l |-> l, tok |-> Token(EOF, <<>>)]
          [] OTHER -> default_arm(l)

\* Lexer::next_token: the match, then read_char, then the token
next_token(l) ==
    LET m == match_ch(l)
        l2 == read_char(m.l)
    IN  IF l2.panic # PanicNone THEN [l |-> l2, tok |-> NoToken]
        ELSE [l |-> l2, tok |-> m.tok]

-----------------------------------------------------------------------------
(* Inputs *)

LetFive == <<"l", "e", "t", " ", "f", "i", "v", "e", " ", "=", " ", "5">>

FnInput == <<"f", "n", "(", "x", ",", "y", ")", "{", "r", "e", "t", "u", "r", "n",
             " ", "x", "+", "y", ";", "}">>

FnTrue == <<"f", "n", "t", "r", "u", "e">>

AllWhitespace == <<" ", "\t", "\n", "\r">>

\* the one-character operators and punctuation of the match, in two inputs
Punct1 == <<"+", "-", "/", "*", "<", ">">>

Punct2 == <<"(", ")", ";", ",", "{", "}">>

\* the characters the generated inputs are made of
Alphabet == {"=", "!", "+", ";", ",", "(", " ", "\n", "f", "n", "i", "_", "5", "@",
             NUL, EACUTE}

Inputs ==
    UNION {[1..n -> Alphabet] : n \in 0..MaxLen}
        \cup {LetFive, FnInput, FnTrue, AllWhitespace, Punct1, Punct2}

-----------------------------------------------------------------------------
(* The program: a scanner built by Lexer::new, then calls of next_token.   *)
(* tokens is the sequence of tokens the calls have returned so far.        *)

Self == Lexer(input, position, read_position, ch, panic)

\* the scanner Lexer::new returns, before any call of next_token
Construct(l) ==
    /\ input = l.input
    /\ position = l.position
    /\ read_position = l.read_position
    /\ ch = l.ch
    /\ panic = l.panic
    /\ tokens = <<>>

Init == \E i \in Inputs : Construct(New(i))

\* the scanner and the caller's tokens after a call of next_token that gave r
Return(r) ==
    /\ position' = r.l.position
    /\ read_position' = r.l.read_position
    /\ ch' = r.l.ch
    /\ panic' = r.l.panic
    /\ tokens' = IF r.l.panic = PanicNone THEN Append(tokens, r.tok) ELSE tokens

NextToken ==
    /\ panic = PanicNone
    /\ Len(tokens) < MaxCalls
    /\ Return(next_token(Self))
    /\ UNCHANGED input

Next == NextToken

Spec == Init /\ [][Next]_vars

TypeOK ==
    /\ input \in Inputs
    /\ position \in Nat
    /\ read_position \in Nat
    /\ panic \in {PanicNone, PanicNth, PanicSlice, PanicLookup}
    /\ Len(tokens) <= MaxCalls

-----------------------------------------------------------------------------
(* Helpers of the properties *)

Last(s) == s[Len(s)]

\* a call of next_token has just returned a token
Returned == Len(tokens') = Len(tokens) + 1

KeywordKinds == {e[2] : e \in KEYWORDS}

IsKeyword(text) == \E e \in KEYWORDS : e[1] = text

KindOf(text) == (CHOOSE e \in KEYWORDS : e[1] = text)[2]

IsLetterRun(text) == Len(text) > 0 /\ \A k \in 1..Len(text) : is_letter(text[k])

\* the character of index p (from 0) of s, the sentinel outside s
CharAt(s, p) == IF p < Len(s) THEN s[p + 1] ELSE NUL

\* the first tokens returned are those of the sequence expected, then EndOfInput
TokensFollow(expected) ==
    \A i \in 1..Len(tokens) :
        tokens[i] = IF i <= Len(expected) THEN expected[i] ELSE Token(EOF, <<>>)

-----------------------------------------------------------------------------
(* Properties *)

\* C1: lookup_ident never fails: no call of it panics, and the token made
\* from a run of letters has the keyword's kind when the run is one of the
\* seven keywords and the kind IDENT for every other run.
C1_LookupIdentNeverFails ==
    /\ panic # PanicLookup
    /\ \A i \in 1..Len(tokens) :
           IsLetterRun(tokens[i].literal) =>
               tokens[i].token_type =
                   IF IsKeyword(tokens[i].literal) THEN KindOf(tokens[i].literal)
                   ELSE IDENT

\* C2: once next_token has returned an EndOfInput token, every later call
\* returns EndOfInput with an empty literal and does not panic.
C2_ExhaustedIsAbsorbing ==
    [][(\E i \in 1..Len(tokens) : tokens[i].token_type = EOF)
           => /\ panic' = PanicNone
              /\ Returned
              /\ Last(tokens') = Token(EOF, <<>>)]_vars

LetFiveExpected ==
    << Token(LET_, <<"l", "e", "t">>),
       Token(IDENT, <<"f", "i", "v", "e">>),
       Token(ASSIGN, <<"=">>),
       Token(INT, <<"5">>),
       Token(EOF, <<>>) >>

\* C3: for the input "let five = 5" the calls of next_token return exactly
\* Let("let"), Identifier("five"), Assign("="), Integer("5"), EndOfInput(""),
\* with no other token in between and no failure.
C3_LetFiveSequence ==
    input = LetFive => panic = PanicNone /\ TokensFollow(LetFiveExpected)

IsWhitespaceOnly(s) == \A k \in 1..Len(s) : is_whitespace(s[k])

\* C4: whitespace is skipped before classifying: for an input made only of
\* whitespace the first token returned is EndOfInput, and no token returned
\* for any input has a whitespace character as its literal.
C4_WhitespaceSkipped ==
    /\ IsWhitespaceOnly(input) /\ panic = PanicNone /\ Len(tokens) >= 1
           => tokens[1].token_type = EOF
    /\ IsWhitespaceOnly(input) => panic = PanicNone
    /\ \A i \in 1..Len(tokens) :
           ~(Len(tokens[i].literal) = 1 /\ is_whitespace(tokens[i].literal[1]))

\* C5: the input "==" gives one token Equal("==") and then EndOfInput, and
\* the input "!=" gives one token NotEqual("!=") and then EndOfInput.
C5_TwoCharOperators ==
    /\ input = <<"=", "=">>
           => panic = PanicNone /\ TokensFollow(<<Token(EQ, <<"=", "=">>)>>)
    /\ input = <<"!", "=">>
           => panic = PanicNone /\ TokensFollow(<<Token(NOT_EQ, <<"!", "=">>)>>)

\* C5 witness: "==" has been scanned to its Equal token and the EndOfInput
\* after it.
C5_Witness ==
    /\ input = <<"=", "=">>
    /\ Len(tokens) >= 2
    /\ tokens[1].token_type = EQ
    /\ tokens[2].token_type = EOF

\* the kinds of the tokens of "fn(x,y){return x+y;}", in order
FnExpectedKinds ==
    << {FUNCTION}, {LPAREN}, {IDENT}, {COMMA, SEMICOLON}, {IDENT}, {RPAREN},
       {LBRACE}, {RETURN}, {IDENT}, {PLUS}, {IDENT}, {SEMICOLON}, {RBRACE}, {EOF} >>

\* the literals the sequence names
FnExpectedLiteral(i, lit) ==
    CASE i \in {3, 9} -> lit = <<"x">>
      [] i \in {5, 11} -> lit = <<"y">>
      [] i = 4 -> lit = <<",">>
      [] i = 12 -> lit = <<";">>
      [] OTHER -> TRUE

\* C6: for the input "fn(x,y){return x+y;}" the calls of next_token return,
\* in order, Function, LeftParen, Identifier("x"), a comma-or-semicolon kind
\* with literal ",", Identifier("y"), RightParen, LeftBrace, Return,
\* Identifier("x"), Plus, Identifier("y"), a semicolon kind with literal ";",
\* RightBrace, EndOfInput.
C6_FnSequence ==
    input = FnInput =>
        /\ panic = PanicNone
        /\ \A i \in 1..Len(tokens) :
               i <= Len(FnExpectedKinds) =>
                   /\ tokens[i].token_type \in FnExpectedKinds[i]
                   /\ FnExpectedLiteral(i, tokens[i].literal)

\* C7: identifiers are maximal and the keyword lookup is of the whole run:
\* the input "fntrue" gives the single token Identifier("fntrue") and then
\* EndOfInput, not Function followed by True.
C7_FnTrueIsOneIdentifier ==
    input = FnTrue => panic = PanicNone /\ TokensFollow(<<Token(IDENT, FnTrue)>>)

\* neither whitespace, nor an operator or punctuation character, nor a
\* letter, underscore, digit or the sentinel
IsUnrecognized(c) ==
    /\ ~is_whitespace(c)
    /\ c \notin {"=", "!", "+", "-", "/", "*", "<", ">", "(", ")", ";", ",", "{", "}"}
    /\ ~is_letter(c)
    /\ ~is_digit(c)
    /\ c # NUL

\* C8: when the current character is an unrecognized character, next_token
\* does not fail: it returns Illegal with that character as literal and
\* consumes exactly that character; the input "@" gives Illegal("@") and then
\* EndOfInput.
C8_IllegalIsNotAFailure ==
    [][/\ (panic = PanicNone /\ IsUnrecognized(ch))
              => /\ panic' = PanicNone
                 /\ Returned
                 /\ Last(tokens') = Token(ILLEGAL, <<ch>>)
                 /\ position' = position + 1
       /\ input = <<"@">>
              => /\ panic' = PanicNone
                 /\ \A i \in 1..Len(tokens') :
                        tokens'[i] = IF i = 1 THEN Token(ILLEGAL, <<"@">>)
                                     ELSE Token(EOF, <<>>)]_vars

\* C9: no access of the input buffer is out of bounds, in Lexer::new or in
\* any sequence of next_token calls, for any input; the empty input gives
\* EndOfInput on the first call.
C9_NoOutOfBounds ==
    /\ panic \notin {PanicNth, PanicSlice}
    /\ input = <<>> /\ Len(tokens) >= 1 => tokens[1].token_type = EOF
    /\ input = <<>> => panic = PanicNone

\* C10: after next_token returns an Identifier, keyword or Integer token, the
\* current character is the first character after the matched run: the
\* character that follows the run is not skipped.
C10_NoExtraAdvance ==
    [][(Returned /\ Last(tokens').token_type \in {IDENT, INT} \cup KeywordKinds)
           => /\ position' = position + Len(Last(tokens').literal)
              /\ ch' = CharAt(input, position')]_vars

\* C11: when the current character is the sentinel, next_token returns
\* EndOfInput with an empty literal and does not advance the cursor:
\* position and read_position are after the call what they were before it.
C11_EofDoesNotAdvance ==
    [][(panic = PanicNone /\ ch = NUL)
           => /\ panic' = PanicNone
              /\ Returned
              /\ Last(tokens') = Token(EOF, <<>>)
              /\ position' = position
              /\ read_position' = read_position]_vars

\* C12: in every state reached by Lexer::new and calls of next_token,
\* read_position is position + 1 (the code never clamps it), and ch is the
\* character of the input at position when position is inside the input and
\* the sentinel otherwise.
C12_CursorInvariant ==
    /\ read_position = position + 1
    /\ ch = CharAt(input, position)

\* C12 witness: after a call of next_token the cursor is inside the input,
\* on a character that is not the sentinel.
C12_Witness ==
    /\ panic = PanicNone
    /\ Len(tokens) >= 1
    /\ position < Len(input)
    /\ ch = input[position + 1]
    /\ ch # NUL

\* C13: lookahead does not consume: when the current character is '=' or '!'
\* and the next character is not '=' (or there is none), next_token returns
\* the one-character Assign("=") or Bang("!"), consumes exactly one
\* character, and the character peeked at is the current character after the
\* call, the first of the next token.
C13_LookaheadDoesNotConsume ==
    [][(panic = PanicNone /\ ch \in {"=", "!"} /\ CharAt(input, position + 1) # "=")
           => /\ panic' = PanicNone
              /\ Returned
              /\ Last(tokens') = Token(IF ch = "=" THEN ASSIGN ELSE BANG, <<ch>>)
              /\ position' = position + 1
              /\ ch' = CharAt(input, position + 1)]_vars

RECURSIVE DigitRun(_, _)
\* the maximal run of digits of s that starts at the character of index p
DigitRun(s, p) ==
    IF p < Len(s) /\ is_digit(s[p + 1]) THEN <<s[p + 1]>> \o DigitRun(s, p + 1)
    ELSE <<>>

\* C14: when the current character is a digit, next_token returns one
\* Integer token whose literal is the maximal run of digits that starts
\* there; digits are no part of an identifier, so a run of letters directly
\* followed by digits gives the identifier's token and then an Integer token:
\* "fn5" gives Function("fn"), Integer("5"), EndOfInput.
C14_IntegerIsMaximalDigitRun ==
    [][/\ (panic = PanicNone /\ is_digit(ch))
              => /\ panic' = PanicNone
                 /\ Returned
                 /\ Last(tokens') = Token(INT, DigitRun(input, position))
       /\ input = <<"f", "n", "5">>
              => /\ panic' = PanicNone
                 /\ \A i \in 1..Len(tokens') :
                        tokens'[i] = CASE i = 1 -> Token(FUNCTION, <<"f", "n">>)
                                       [] i = 2 -> Token(INT, <<"5">>)
                                       [] OTHER -> Token(EOF, <<>>)]_vars

\* the characters of the one-character arms of the match
PunctChars == {"+", "-", "/", "*", "<", ">", "(", ")", ";", ",", "{", "}"}

\* the kind the one-character arm of a character gives its token
PunctKind(c) ==
    CASE c = "+" -> PLUS
      [] c = "-" -> MINUS
      [] c = "/" -> SLASH
      [] c = "*" -> ASTERISK
      [] c = "<" -> LT
      [] c = ">" -> GT
      [] c = "(" -> LPAREN
      [] c = ")" -> RPAREN
      [] c = ";" -> SEMICOLON
      [] c = "," -> COMMA
      [] c = "{" -> LBRACE
      [] c = "}" -> RBRACE

\* C15: for each of the characters + - / * < > ( ) ; , { } as current
\* character, next_token consumes exactly one character and returns a token
\* whose literal is that character and whose kind is the kind of that
\* character.
C15_OneCharTokens ==
    [][(panic = PanicNone /\ ch \in PunctChars)
           => /\ panic' = PanicNone
              /\ Returned
              /\ Last(tokens') = Token(PunctKind(ch), <<ch>>)
              /\ position' = position + 1]_vars

\* C16: the token returned for ',' and the token returned for ';' have the
\* same kind; only their literals differ.
C16_CommaKindIsSemicolonKind ==
    \A i, j \in 1..Len(tokens) :
        (tokens[i].literal = <<",">> /\ tokens[j].literal = <<";">>)
            => /\ tokens[i].token_type = tokens[j].token_type
               /\ tokens[i].literal # tokens[j].literal

\* C16 witness: a scanner has returned a token for ',' and a token for ';'.
C16_Witness ==
    \E i, j \in 1..Len(tokens) :
        /\ tokens[i].literal = <<",">>
        /\ tokens[j].literal = <<";">>
        /\ tokens[i].token_type = SEMICOLON

RECURSIVE ConcatLiterals(_)
\* the literals of a sequence of tokens, one after the other
ConcatLiterals(ts) ==
    IF ts = <<>> THEN <<>> ELSE ts[1].literal \o ConcatLiterals(Tail(ts))

\* s without its whitespace characters
WithoutWhitespace(s) == SelectSeq(s, LAMBDA c : ~is_whitespace(c))

\* lit is a run of consecutive characters of s
IsSubstring(lit, s) ==
    \E k \in 0..(Len(s) - Len(lit)) : \A j \in 1..Len(lit) : s[k + j] = lit[j]

\* the last token returned is the first EndOfInput
AtFirstEof ==
    /\ Len(tokens) >= 1
    /\ Last(tokens).token_type = EOF
    /\ \A i \in 1..(Len(tokens) - 1) : tokens[i].token_type # EOF

\* C17: tokenization is lossless: the literals of the tokens returned up to
\* the first EndOfInput, one after the other, are the input without its
\* whitespace characters, and every literal is a run of consecutive
\* characters of the input.
C17_Lossless ==
    /\ AtFirstEof => ConcatLiterals(tokens) = WithoutWhitespace(input)
    /\ \A i \in 1..Len(tokens) : IsSubstring(tokens[i].literal, input)

\* C18: scanning terminates without backtracking: position never decreases,
\* every call of next_token that returns a token other than EndOfInput
\* makes position greater, every call returns, and for an input of n
\* characters EndOfInput is among the tokens of the first n + 1 calls.
C18_TerminatesWithoutBacktracking ==
    [][/\ position' >= position
       /\ (Returned /\ Last(tokens').token_type # EOF) => position' > position
       /\ panic' = PanicNone
       /\ Len(tokens') = Len(input) + 1
              => \E i \in 1..Len(tokens') : tokens'[i].token_type = EOF]_vars

====
